---------------------------- MODULE Spec2Model ----------------------------
(***************************************************************************)
(* A model of trn_model_gen.py: main() reads rule lines, sends each one to *)
(* the external expression parser, scrapes the equations the parser prints *)
(* after the PRINTING RULES: marker into (label, {variable: coefficient})  *)
(* columns, normalizes the protein rows, appends the EX_ and AV_ columns   *)
(* and prints the matrix.                                                  *)
(*                                                                         *)
(* A Python str is a sequence of one-character strings, so that strip,     *)
(* startswith, endswith, the two regular expressions and the sort order    *)
(* are computed character by character as the interpreter computes them.   *)
(* A printed row is the sequence of its tab-joined fields; no field holds  *)
(* a tab, because labels match [^\s:]+ and variables match \S+.            *)
(***************************************************************************)
EXTENDS Integers, Sequences, FiniteSets, TLC

----------------------------------------------------------------------------
(* Characters and the built-in string operations main() relies on.         *)

\* ord(c) for the characters of the model's alphabet
Ord(c) ==
    CASE c = " " -> 32 [] c = "#" -> 35 [] c = "+" -> 43 [] c = "-" -> 45
      [] c = "0" -> 48 [] c = "1" -> 49 [] c = "2" -> 50 [] c = "3" -> 51
      [] c = "4" -> 52 [] c = "5" -> 53 [] c = "6" -> 54 [] c = "7" -> 55
      [] c = "8" -> 56 [] c = "9" -> 57 [] c = ":" -> 58 [] c = "=" -> 61
      [] c = ">" -> 62 [] c = "A" -> 65 [] c = "B" -> 66 [] c = "C" -> 67
      [] c = "E" -> 69 [] c = "G" -> 71 [] c = "I" -> 73 [] c = "L" -> 76
      [] c = "N" -> 78 [] c = "O" -> 79 [] c = "P" -> 80 [] c = "R" -> 82
      [] c = "S" -> 83 [] c = "T" -> 84 [] c = "U" -> 85 [] c = "V" -> 86
      [] c = "X" -> 88 [] c = "_" -> 95 [] c = "a" -> 97 [] c = "b" -> 98
      [] c = "e" -> 101 [] c = "i" -> 105 [] c = "l" -> 108 [] c = "p" -> 112
      [] c = "r" -> 114 [] c = "v" -> 118

\* str.__lt__: lexicographic comparison by code point
StrLess(a, b) ==
    \E k \in 1..(Len(b)) :
        /\ k <= Len(a) + 1
        /\ \A j \in 1..(k - 1) : a[j] = b[j]
        /\ \/ k = Len(a) + 1
           \/ Ord(a[k]) < Ord(b[k])

\* \s of the re module and the whitespace of str.strip(), on the alphabet
IsSpace(c) == c = " "

NonSpace(c) == ~IsSpace(c)

\* \d of the re module
IsDigit(c) == c \in {"0", "1", "2", "3", "4", "5", "6", "7", "8", "9"}

SetMin(S) == CHOOSE x \in S : \A y \in S : x <= y

\* str.lstrip()
RECURSIVE LStrip(_)
LStrip(s) == IF s # <<>> /\ IsSpace(Head(s)) THEN LStrip(Tail(s)) ELSE s

\* str.rstrip()
RECURSIVE RStrip(_)
RStrip(s) ==
    IF s # <<>> /\ IsSpace(s[Len(s)]) THEN RStrip(SubSeq(s, 1, Len(s) - 1)) ELSE s

\* str.strip()
Strip(s) == RStrip(LStrip(s))

\* str.startswith(p)
StartsWith(s, p) == Len(p) <= Len(s) /\ SubSeq(s, 1, Len(p)) = p

\* str.endswith(p)
EndsWith(s, p) == Len(p) <= Len(s) /\ SubSeq(s, Len(s) - Len(p) + 1, Len(s)) = p

\* s[n:]
DropPrefix(s, n) == SubSeq(s, n + 1, Len(s))

\* sorted(S) of a collection of distinct strings
RECURSIVE Sorted(_)
Sorted(S) ==
    IF S = {} THEN <<>>
    ELSE LET m == CHOOSE x \in S : \A y \in S \ {x} : StrLess(x, y)
         IN  <<m>> \o Sorted(S \ {m})

Range(f) == {f[i] : i \in DOMAIN f}

----------------------------------------------------------------------------
(* The literals of the program.                                            *)

Marker == <<"P","R","I","N","T","I","N","G"," ","R","U","L","E","S",":">>

AC == <<"_","A","C">>

PR == <<"p","r","_">>

NOT == <<"N","O","T","_">>

NOTPR == <<"N","O","T","_","p","r","_">>

EX == <<"E","X","_">>

AV == <<"A","V","_">>

VariableHeader == <<"v","a","r","i","a","b","l","e">>

----------------------------------------------------------------------------
(* The output extractor: lines 92-113.                                     *)

\* the character classes \d, \s and \S
InClass(c, class) ==
    CASE class = "d" -> IsDigit(c)
      [] class = "s" -> IsSpace(c)
      [] class = "S" -> NonSpace(c)

\* the end of the longest run of characters of a class that starts at i
\* (i - 1 when s[i] is not of the class)
RunEnd(s, i, class) ==
    LET stop == {j \in i..Len(s) : ~InClass(s[j], class)}
    IN  IF i > Len(s) THEN i - 1
        ELSE IF stop = {} THEN Len(s) ELSE SetMin(stop) - 1

\* label_line_re.match(s), with label_line_re = ^([^\s:]+):\s+(.*\S)\s*$ ;
\* ok is FALSE when there is no match
label_line_re(s) ==
    LET colons == {i \in 1..Len(s) : s[i] = ":"}
        c      == SetMin(colons)
        label  == SubSeq(s, 1, c - 1)
        rest   == SubSeq(s, c + 1, Len(s))
        nomatch == [ok |-> FALSE, label |-> <<>>, eq |-> <<>>]
    IN  IF colons = {} THEN nomatch
        ELSE IF \/ label = <<>>
                \/ \E i \in 1..Len(label) : IsSpace(label[i])
                \/ rest = <<>>
                \/ ~IsSpace(rest[1])
                \/ Strip(rest) = <<>>
             THEN nomatch
             ELSE [ok |-> TRUE, label |-> label, eq |-> Strip(rest)]

\* an attempt after which the scan resumes at the next character, so that
\* matches overlap
PairAtOverlapping(eq, i) ==
    LET d0 == IF eq[i] \in {"+", "-"} THEN i + 1 ELSE i
        d1 == RunEnd(eq, d0, "d")
        s1 == RunEnd(eq, d1 + 1, "s")
        t1 == RunEnd(eq, s1 + 1, "S")
    IN  IF d1 >= d0 /\ s1 > d1 /\ t1 > s1
        THEN [ok |-> TRUE, coeff_str |-> SubSeq(eq, i, d1),
              var |-> SubSeq(eq, s1 + 1, t1), next |-> i + 1]
        ELSE [ok |-> FALSE, coeff_str |-> <<>>, var |-> <<>>, next |-> i + 1]

\* one attempt of ([+-]?\d+)\s+(\S+) at position i of eq
PairAt(eq, i) ==
    LET d0 == IF eq[i] \in {"+", "-"} THEN i + 1 ELSE i
        d1 == RunEnd(eq, d0, "d")
        s1 == RunEnd(eq, d1 + 1, "s")
        t1 == RunEnd(eq, s1 + 1, "S")
    IN  IF d1 >= d0 /\ s1 > d1 /\ t1 > s1
        THEN [ok |-> TRUE, coeff_str |-> SubSeq(eq, i, d1),
              var |-> SubSeq(eq, s1 + 1, t1), next |-> t1 + 1]
        ELSE [ok |-> FALSE, coeff_str |-> <<>>, var |-> <<>>, next |-> i + 1]

\* re.findall(r"([+-]?\d+)\s+(\S+)", eq): leftmost non-overlapping matches
RECURSIVE FindAllFrom(_, _)
FindAllFrom(eq, i) ==
    IF i > Len(eq) THEN <<>>
    ELSE LET m == PairAt(eq, i)
         IN  IF m.ok
             THEN <<[coeff_str |-> m.coeff_str, var |-> m.var]>> \o FindAllFrom(eq, m.next)
             ELSE FindAllFrom(eq, m.next)

FindAll(eq) == FindAllFrom(eq, 1)

DigitVal(c) ==
    CASE c = "0" -> 0 [] c = "1" -> 1 [] c = "2" -> 2 [] c = "3" -> 3
      [] c = "4" -> 4 [] c = "5" -> 5 [] c = "6" -> 6 [] c = "7" -> 7
      [] c = "8" -> 8 [] c = "9" -> 9

RECURSIVE DigitsVal(_)
DigitsVal(ds) ==
    IF ds = <<>> THEN 0
    ELSE 10 * DigitsVal(SubSeq(ds, 1, Len(ds) - 1)) + DigitVal(ds[Len(ds)])

\* int(coeff_str) of a string matching [+-]?\d+
ParseInt(cs) ==
    IF cs[1] = "-" THEN 0 - DigitsVal(Tail(cs))
    ELSE IF cs[1] = "+" THEN DigitsVal(Tail(cs))
    ELSE DigitsVal(cs)

\* mapping.get(var, 0)
Get(mapping, var) == IF var \in DOMAIN mapping THEN mapping[var] ELSE 0

EmptyMap == [v \in {} |-> 0]

\* add_var, lines 66-69, on the record of the locals that main() accumulates
add_var(st, name) ==
    IF name \in DOMAIN st.var_index THEN st
    ELSE [st EXCEPT
            !.var_index = [v \in DOMAIN st.var_index \cup {name} |->
                             IF v = name THEN Len(st.all_vars) ELSE st.var_index[v]],
            !.all_vars = Append(st.all_vars, name)]

\* an update that overwrites the coefficient instead of adding to it
SetCoeff(mapping, var, coeff) ==
    [v \in DOMAIN mapping \cup {var} |-> IF v = var THEN coeff ELSE mapping[v]]

\* mapping[var] = mapping.get(var, 0) + coeff, line 111
AddCoeff(mapping, var, coeff) ==
    [v \in DOMAIN mapping \cup {var} |->
        IF v = var THEN Get(mapping, var) + coeff ELSE mapping[v]]

\* the loop over the pairs of one equation, lines 108-112
RECURSIVE FoldPairs(_, _, _)
FoldPairs(pairs, mapping, st) ==
    IF pairs = <<>> THEN [mapping |-> mapping, st |-> st]
    ELSE LET p == Head(pairs)
         IN  FoldPairs(Tail(pairs),
                       AddCoeff(mapping, p.var, ParseInt(p.coeff_str)),
                       add_var(st, p.var))

\* one iteration of the loop over the parser's output lines, lines 95-113
ScanLine(st, out_line) ==
    LET s == Strip(out_line)
        m == label_line_re(s)
        pairs == FindAll(m.eq)
        r == FoldPairs(pairs, EmptyMap, st)
    IN  IF s = Marker THEN [st EXCEPT !.capturing = TRUE]
        ELSE IF ~st.capturing THEN st
        ELSE IF ~m.ok THEN st
        ELSE IF pairs = <<>> THEN st
        ELSE [r.st EXCEPT
                !.columns = Append(r.st.columns, [label |-> m.label, mapping |-> r.mapping])]

\* a scan that does not reset the flag for a new response
KeepCapturing(previous) == previous

\* the value of capturing when the scan of a response starts, line 93
StartCapturing(previous) == FALSE

----------------------------------------------------------------------------
(* The normalizer and the synthesized columns: lines 118-169.              *)

NoBase == [none |-> TRUE, str |-> <<>>]

Base(s) == [none |-> FALSE, str |-> s]

\* a protein_base that tests the NOT_ prefix before the NOT_pr_ prefix
protein_base_not_first(v) ==
    IF EndsWith(v, AC) THEN NoBase
    ELSE IF StartsWith(v, NOT) THEN Base(DropPrefix(v, Len(NOT)))
    ELSE IF StartsWith(v, PR) THEN Base(DropPrefix(v, Len(PR)))
    ELSE NoBase

\* protein_base, lines 118-128
protein_base(v) ==
    IF EndsWith(v, AC) THEN NoBase
    ELSE IF StartsWith(v, NOTPR) THEN Base(DropPrefix(v, Len(NOTPR)))
    ELSE IF StartsWith(v, PR) THEN Base(DropPrefix(v, Len(PR)))
    ELSE IF StartsWith(v, NOT) THEN Base(DropPrefix(v, Len(NOT)))
    ELSE NoBase

\* the truth value of protein_base's result: None and "" are false
Truthy(b) == ~b.none /\ b.str # <<>>

\* lines 130-134
CollectBases(vars) ==
    {protein_base(vars[i]).str : i \in {j \in DOMAIN vars : Truthy(protein_base(vars[j]))}}

\* a normalization that adds the pr_<b> row only
AddPrRowOnly(st, b) ==
    IF PR \o b \notin DOMAIN st.var_index THEN add_var(st, PR \o b) ELSE st

\* the additions for one base, lines 138-141
AddProteinRows(st, b) ==
    LET st1 == IF PR \o b \notin DOMAIN st.var_index THEN add_var(st, PR \o b) ELSE st
    IN  IF NOTPR \o b \notin DOMAIN st1.var_index THEN add_var(st1, NOTPR \o b) ELSE st1

\* lines 137-141
RECURSIVE NormalizeRows(_, _)
NormalizeRows(st, bs) ==
    IF bs = <<>> THEN st ELSE NormalizeRows(AddProteinRows(st, Head(bs)), Tail(bs))

\* lines 146-150: the part of v before its _AC suffix, for every v ending in _AC
GeneBases(vars) ==
    {SubSeq(vars[i], 1, Len(vars[i]) - 3) : i \in {j \in DOMAIN vars : EndsWith(vars[j], AC)}}

\* lines 151-154
ProteinBases(vars) ==
    {protein_base(vars[i]).str :
        i \in {j \in DOMAIN vars : ~EndsWith(vars[j], AC) /\ Truthy(protein_base(vars[j]))}}

\* a visit of the bases in descending order
RECURSIVE Descending(_)
Descending(S) ==
    IF S = {} THEN <<>>
    ELSE LET m == CHOOSE x \in S : \A y \in S \ {x} : StrLess(y, x)
         IN  <<m>> \o Descending(S \ {m})

\* the order in which the bases are visited, lines 157 and 163
BaseOrder(S) == Sorted(S)

\* an EX_ column with +1 at the gene's row
ExMappingPlus(ac_row) == [v \in {ac_row} |-> 1]

\* the mapping of an EX_ column, line 160
ExMapping(ac_row) == [v \in {ac_row} |-> 0 - 1]

\* lines 157-160
RECURSIVE ExColumns(_, _)
ExColumns(gs, var_index) ==
    IF gs = <<>> THEN <<>>
    ELSE LET g == Head(gs)
             ac_row == g \o AC
         IN  (IF ac_row \in DOMAIN var_index
              THEN <<[label |-> EX \o g, mapping |-> ExMapping(ac_row)]>>
              ELSE <<>>) \o ExColumns(Tail(gs), var_index)

\* an AV_ column that does not look for the NOT_<b> row
CandidatesWithoutNot(b) == {PR \o b, NOTPR \o b}

\* the rows an AV_ column looks for, line 165
Candidates(b) == {PR \o b, NOTPR \o b, NOT \o b}

\* lines 163-169
RECURSIVE AvColumns(_, _)
AvColumns(bs, var_index) ==
    IF bs = <<>> THEN <<>>
    ELSE LET b == Head(bs)
             present == {c \in Candidates(b) : c \in DOMAIN var_index}
         IN  (IF present # {}
              THEN <<[label |-> AV \o b, mapping |-> [v \in present |-> 1]]>>
              ELSE <<>>) \o AvColumns(Tail(bs), var_index)

\* lines 172-177: the header row, then one row per variable in sorted order;
\* the header is printed as "variable\t" followed by the tab-joined labels, so
\* that with no column at all its text still ends with the tab
HeaderRow(columns) == <<VariableHeader>> \o [i \in 1..Len(columns) |-> columns[i].label]

DataRow(var, columns) == <<var>> \o [i \in 1..Len(columns) |-> Get(columns[i].mapping, var)]

MatrixRows(columns, vars) ==
    LET order == Sorted(Range(vars))
    IN  <<HeaderRow(columns)>> \o [i \in 1..Len(order) |-> DataRow(order[i], columns)]

----------------------------------------------------------------------------
(* The inputs: the rules file, the --output argument, the parser's answers. *)

\* the longest parser response, in lines
MaxOutLines == 3

\* the largest magnitude of a failing parser's exit code
MaxExit == 2

RuleComment == <<"#"," ","r">>

RuleBlank == <<" ">>

RuleLabel == <<" ","G",":"," ","a",":","b"," ">>

RulePlain == <<"r">>

\* the rules files, as the lines the iteration over fh yields
RuleFiles ==
    { <<>>,
      <<RulePlain>>,
      <<RuleComment, RuleLabel, RuleBlank, RulePlain>> }

OutputArgs == {"-", "out.tsv"}

OutPadded == <<" ","P","R","I","N","T","I","N","G"," ","R","U","L","E","S",":"," ">>

OutG1 == <<"G","1",":"," ","1"," ","p","r","_","A"," ","+"," ","-","1"," ","N","O","T","_","B">>

OutG2 == <<"G","2",":"," ","2"," ","p","r","_","A"," ","-","1"," ","p","r","_","A"," ","1"," ","A","_","A","C"," ","-","1"," ","A","_","A","C">>

OutG3 == <<"G","3",":"," ","1"," ","N","O","T","_","p","r","_","C"," ",">","="," ","0"," ","+"," ","1"," ","p","r","_","A","C">>

OutNoPair == <<"G","4",":"," ","p","r","_","A"," ","+"," ","N","O","T","_","B">>

OutNoMatch == <<"G","5",":","1"," ","p","r","_","B">>

\* the lines a parser response is made of
OutLines == {Marker, OutPadded, OutG1, OutG2, OutG3, OutNoPair, OutNoMatch}

\* the longest equation, in tokens
MaxTokens == 4

\* the largest number of distinct variables of an equation
MaxNames == 3

EqLabel == <<"G",":"," ">>

\* signed integers, variable names and operators
TokenPool == {<<"1">>, <<"-","2">>, <<"p","r","_","A">>, <<"B","1">>, <<"+">>, <<">","=">>}

\* variable names of every shape protein_base and the _AC test tell apart
NamePool == {<<"p","r","_","A">>, <<"N","O","T","_","p","r","_","A">>, <<"N","O","T","_","A">>, <<"A","_","A","C">>, <<"p","r","_","A","C">>, <<"N","O","T","_","p","r","_","A","C">>, <<"p","r","_">>, <<"N","O","T","_","p","r","_">>, <<"_","A","C">>, <<"p","r","_","p","r","_","A">>, <<"A">>}

RECURSIVE JoinTokens(_)
JoinTokens(ts) ==
    IF Len(ts) = 1 THEN ts[1] ELSE ts[1] \o <<" ">> \o JoinTokens(Tail(ts))

\* the equation 1 n1 1 n2 ... over the names of a set
RECURSIVE JoinTerms(_)
JoinTerms(ns) ==
    IF ns = <<>> THEN <<>> ELSE <<" ","1"," ">> \o Head(ns) \o JoinTerms(Tail(ns))

TokenLines ==
    {EqLabel \o JoinTokens(ts) : ts \in UNION {[1..n -> TokenPool] : n \in 1..MaxTokens}}

NameLines ==
    {<<"G",":">> \o JoinTerms(Sorted(N)) :
        N \in {M \in SUBSET NamePool : M # {} /\ Cardinality(M) <= MaxNames}}

\* the equation lines of a parser that prints the marker, then one equation
EquationLines == TokenLines \cup NameLines

\* proc.returncode of a parser that fails
FailCodes == {c \in (0 - MaxExit)..MaxExit : c # 0}

----------------------------------------------------------------------------
(* The state of one call of main().                                        *)

VARIABLES
    pc,          \* where main() is: start, read, scan, normalize, build, emit, done
    output,      \* args.output
    fh,          \* the lines of the rules file not yet read
    idx,         \* the number of the last line read
    runs,        \* the calls of run_parser so far: rule, returncode
    scanned,     \* the lines of the response being scanned that were already read
    capturing,   \* the flag of the scan of the last response
    columns,     \* list[(label, {var: coeff})]
    all_vars,    \* the variables in first-seen order
    var_index,   \* {var: position in all_vars}
    bases,       \* the protein bases found before the normalization
    gene_bases,  \* the gene bases found after it
    protein_bases, \* the protein bases found after it
    streams,     \* the state of sys.stdout and of the output file
    written,     \* the rows printed to out_stream
    outcome,     \* running, returned or raised
    retcode,     \* the value main() returned
    collected    \* history: columns and all_vars when the last rule line was done

vars == <<pc, output, fh, idx, runs, scanned, capturing, columns, all_vars, var_index,
          bases, gene_bases, protein_bases, streams, written, outcome, retcode,
          collected>>

locals == [capturing |-> capturing, columns |-> columns,
           all_vars |-> all_vars, var_index |-> var_index]

Init ==
    /\ pc = "start"
    /\ output \in OutputArgs
    /\ fh \in RuleFiles
    /\ idx = 0
    /\ runs = <<>>
    /\ scanned = <<>>
    /\ capturing = FALSE
    /\ columns = <<>>
    /\ all_vars = <<>>
    /\ var_index = EmptyMap
    /\ bases = {}
    /\ gene_bases = {}
    /\ protein_bases = {}
    /\ streams = [stdout |-> "open", file |-> "unopened"]
    /\ written = <<>>
    /\ outcome = "running"
    /\ retcode = 0
    /\ collected = [columns |-> <<>>, all_vars |-> <<>>]

\* a finally clause that leaves the stream as it is
FinallyNoClose(out, str) == str

\* the finally clause, lines 180-182
Finally(out, str) == IF out # "-" THEN [str EXCEPT !.file = "closed"] ELSE str

\* lines 48-55: the parser or the rules file does not exist
MissingFile ==
    /\ pc = "start"
    /\ pc' = "done"
    /\ outcome' = "returned"
    /\ retcode' = 2
    /\ UNCHANGED <<collected, output, fh, idx, runs, scanned, capturing, columns, all_vars, var_index,
                   bases, gene_bases, protein_bases, streams, written>>

\* line 57
OpenOutput ==
    /\ pc = "start"
    /\ pc' = "read"
    /\ streams' = IF output = "-" THEN streams ELSE [streams EXCEPT !.file = "open"]
    /\ UNCHANGED <<collected, output, fh, idx, runs, scanned, capturing, columns, all_vars, var_index,
                   bases, gene_bases, protein_bases, written, outcome, retcode>>

\* line 57: open() of the output file raises, before the try statement
OpenOutputRaises ==
    /\ pc = "start"
    /\ output # "-"
    /\ pc' = "done"
    /\ outcome' = "raised"
    /\ UNCHANGED <<collected, output, fh, idx, runs, scanned, capturing, columns, all_vars, var_index,
                   bases, gene_bases, protein_bases, streams, written, retcode>>

\* line 74; no line of the model holds a carriage return
CleanLine(raw) == Strip(raw)

\* line 75
Skipped(line) == IF line = <<>> THEN TRUE ELSE line[1] = "#"

\* lines 79-81
RuleText(line) ==
    LET colons == {i \in 1..Len(line) : line[i] = ":"}
        c == SetMin(colons)
    IN  IF colons = {} THEN line
        ELSE Strip(SubSeq(line, 1, c - 1)) \o <<" ">> \o Strip(SubSeq(line, c + 1, Len(line)))

\* lines 73-76: an empty line or a comment
SkipLine ==
    /\ pc = "read"
    /\ fh # <<>>
    /\ Skipped(CleanLine(Head(fh)))
    /\ fh' = Tail(fh)
    /\ idx' = idx + 1
    /\ UNCHANGED <<collected, pc, output, runs, scanned, capturing, columns, all_vars, var_index,
                   bases, gene_bases, protein_bases, streams, written, outcome, retcode>>

\* a main() that reports every parser failure as exit code 1
ReturnOne(returncode) == 1

\* line 90: the value main() returns when the parser failed
ReturnValue(returncode) == returncode

\* lines 83-90: the parser exits with a nonzero code
ParserFails ==
    /\ pc = "read"
    /\ fh # <<>>
    /\ ~Skipped(CleanLine(Head(fh)))
    /\ \E rc \in FailCodes, line \in {RuleText(CleanLine(Head(fh)))} :
          /\ runs' = Append(runs, [rule |-> line, returncode |-> rc])
          /\ retcode' = ReturnValue(rc)
    /\ fh' = Tail(fh)
    /\ idx' = idx + 1
    /\ outcome' = "returned"
    /\ streams' = Finally(output, streams)
    /\ pc' = "done"
    /\ UNCHANGED <<collected, output, scanned, capturing, columns, all_vars, var_index,
                   bases, gene_bases, protein_bases, written>>

\* lines 83-93: the parser exits with 0 and the scan of its output starts
ParserSucceeds ==
    /\ pc = "read"
    /\ fh # <<>>
    /\ ~Skipped(CleanLine(Head(fh)))
    /\ \E line \in {RuleText(CleanLine(Head(fh)))} :
          runs' = Append(runs, [rule |-> line, returncode |-> 0])
    /\ fh' = Tail(fh)
    /\ idx' = idx + 1
    /\ capturing' = StartCapturing(capturing)
    /\ scanned' = <<>>
    /\ pc' = "scan"
    /\ UNCHANGED <<collected, output, columns, all_vars, var_index, bases, gene_bases,
                   protein_bases, streams, written, outcome, retcode>>

\* lines 94-113: one iteration over proc.stdout.splitlines(), the line read
\* being one of lines
ScanFrom(lines) ==
    /\ pc = "scan"
    /\ Len(scanned) < MaxOutLines
    /\ \E out_line \in lines :
          LET st == ScanLine(locals, out_line)
          IN  /\ scanned' = Append(scanned, out_line)
              /\ capturing' = st.capturing
              /\ columns' = st.columns
              /\ all_vars' = st.all_vars
              /\ var_index' = st.var_index
    /\ UNCHANGED <<collected, pc, output, fh, idx, runs, bases, gene_bases, protein_bases,
                   streams, written, outcome, retcode>>

\* the next line of the parser's response is any line of OutLines
ScanOutLine == ScanFrom(OutLines)

\* the response starts with the marker line
ScanMarker == scanned = <<>> /\ ScanFrom({Marker})

\* the line after the marker is any equation line of EquationLines
ScanEquation == scanned = <<Marker>> /\ ScanFrom(EquationLines)

\* line 94: the response has no further line
EndOfOutput ==
    /\ pc = "scan"
    /\ pc' = "read"
    /\ scanned' = <<>>
    /\ UNCHANGED <<collected, output, fh, idx, runs, capturing, columns, all_vars, var_index,
                   bases, gene_bases, protein_bases, streams, written, outcome, retcode>>

\* lines 59-113: opening or reading the rules file, starting the parser or
\* converting a coefficient raises
ReadRaises ==
    /\ pc \in {"read", "scan"}
    /\ pc' = "done"
    /\ outcome' = "raised"
    /\ streams' = Finally(output, streams)
    /\ UNCHANGED <<collected, output, fh, idx, runs, scanned, capturing, columns, all_vars, var_index,
                   bases, gene_bases, protein_bases, written, retcode>>

\* line 73: the rules file is exhausted
EndOfRules ==
    /\ pc = "read"
    /\ fh = <<>>
    /\ pc' = "normalize"
    /\ collected' = [columns |-> columns, all_vars |-> all_vars]
    /\ UNCHANGED <<output, fh, idx, runs, scanned, capturing, columns, all_vars, var_index,
                   bases, gene_bases, protein_bases, streams, written, outcome, retcode>>

\* lines 130-141
Normalize ==
    /\ pc = "normalize"
    /\ LET bs == CollectBases(all_vars)
           st == NormalizeRows(locals, BaseOrder(bs))
       IN  /\ bases' = bs
           /\ all_vars' = st.all_vars
           /\ var_index' = st.var_index
    /\ pc' = "build"
    /\ UNCHANGED <<collected, output, fh, idx, runs, scanned, capturing, columns, gene_bases, protein_bases,
                   streams, written, outcome, retcode>>

\* lines 146-169
BuildColumns ==
    /\ pc = "build"
    /\ gene_bases' = GeneBases(all_vars)
    /\ protein_bases' = ProteinBases(all_vars)
    /\ columns' = columns \o ExColumns(BaseOrder(GeneBases(all_vars)), var_index)
                          \o AvColumns(BaseOrder(ProteinBases(all_vars)), var_index)
    /\ pc' = "emit"
    /\ UNCHANGED <<collected, output, fh, idx, runs, scanned, capturing, all_vars, var_index, bases,
                   streams, written, outcome, retcode>>

\* lines 172-179, then the finally clause
Emit ==
    /\ pc = "emit"
    /\ written' = MatrixRows(columns, all_vars)
    /\ outcome' = "returned"
    /\ retcode' = 0
    /\ streams' = Finally(output, streams)
    /\ pc' = "done"
    /\ UNCHANGED <<collected, output, fh, idx, runs, scanned, capturing, columns, all_vars, var_index,
                   bases, gene_bases, protein_bases>>

\* lines 172-177: a print to out_stream raises after k rows were written
EmitRaises ==
    /\ pc = "emit"
    /\ \E k \in 0..Len(all_vars) :
          written' = SubSeq(MatrixRows(columns, all_vars), 1, k)
    /\ outcome' = "raised"
    /\ streams' = Finally(output, streams)
    /\ pc' = "done"
    /\ UNCHANGED <<collected, output, fh, idx, runs, scanned, capturing, columns, all_vars, var_index,
                   bases, gene_bases, protein_bases, retcode>>

Next ==
    \/ MissingFile
    \/ OpenOutput
    \/ OpenOutputRaises
    \/ SkipLine
    \/ ParserFails
    \/ ParserSucceeds
    \/ ScanOutLine
    \/ EndOfOutput
    \/ ReadRaises
    \/ EndOfRules
    \/ Normalize
    \/ BuildColumns
    \/ Emit
    \/ EmitRaises

Spec == Init /\ [][Next]_vars

\* main() on a rules file of one rule, with a parser that prints the marker
\* and one equation
InitEq == Init /\ fh = <<RulePlain>>

NextEq ==
    \/ OpenOutput
    \/ ParserSucceeds
    \/ ScanMarker
    \/ ScanEquation
    \/ EndOfOutput
    \/ EndOfRules
    \/ Normalize
    \/ BuildColumns
    \/ Emit

SpecEq == InitEq /\ [][NextEq]_vars

----------------------------------------------------------------------------
(* Vocabulary of the properties.                                           *)

Succeeded == pc = "done" /\ outcome = "returned" /\ retcode = 0

Labels(cols) == [i \in 1..Len(cols) |-> cols[i].label]

\* a step of the loop over the lines of one response
ScanStep == pc = "scan" /\ pc' = "scan" /\ Len(scanned') = Len(scanned) + 1

\* the line such a step reads
ScannedLine == scanned'[Len(scanned')]

\* the part of a line before its first colon
BeforeColon(s) ==
    SubSeq(s, 1, SetMin({i \in 1..Len(s) : s[i] = ":"}) - 1)

\* the names of the rows of the emitted matrix
RowNames == {written[i][1] : i \in 2..Len(written)}

\* B is the protein base of v: v does not end in _AC and is NOT_pr_B, else pr_B,
\* else NOT_B, with B non-empty
IsProteinBaseOf(B, v) ==
    /\ B # <<>>
    /\ ~EndsWith(v, AC)
    /\ \/ v = NOTPR \o B
       \/ ~StartsWith(v, NOTPR) /\ v = PR \o B
       \/ ~StartsWith(v, NOTPR) /\ v = NOT \o B

Suffixes(v) == {SubSeq(v, i, Len(v)) : i \in 1..Len(v)}

\* the protein bases of a set of variables
ProteinBasesOf(V) == {B \in UNION {Suffixes(v) : v \in V} : \E v \in V : IsProteinBaseOf(B, v)}

\* the gene bases of a set of variables
GeneBasesOf(V) == {SubSeq(v, 1, Len(v) - Len(AC)) : v \in {w \in V : EndsWith(w, AC)}}

\* the sequence of strings is strictly ascending
Ascending(seq) == \A i, j \in 1..Len(seq) : i < j => StrLess(seq[i], seq[j])

----------------------------------------------------------------------------
(* C1: when the parser exits with a nonzero code for the k-th dispatched   *)
(* rule line, main returns that code, that run is the last one and no row  *)
(* was written.                                                            *)
C1_FailFast ==
    \A k \in 1..Len(runs) :
        runs[k].returncode # 0 =>
            /\ k = Len(runs)
            /\ pc = "done"
            /\ outcome = "returned"
            /\ retcode = runs[k].returncode
            /\ written = <<>>

C1_Witness ==
    /\ Len(runs) = 2
    /\ runs[2].returncode = 2
    /\ Len(columns) >= 2
    /\ retcode = 2

(* C6: once main has ended with the output file opened, the file is closed,*)
(* and standard output is never closed.                                    *)
C6_FileClosed ==
    /\ streams.stdout = "open"
    /\ (pc = "done" /\ streams.file # "unopened") => streams.file = "closed"

C6_Witness ==
    /\ pc = "done"
    /\ outcome = "raised"
    /\ written # <<>>
    /\ streams.file = "closed"

(* C7 as stated: a line of a response produces a column only if a line     *)
(* equal to the marker was read earlier in the same response, and the      *)
(* marker line produces none; a line read before the marker changes        *)
(* nothing.                                                                *)
C7_MarkerLiteral ==
    [][ScanStep =>
          LET seen == \E i \in 1..Len(scanned) : scanned[i] = Marker
          IN  /\ Len(columns') > Len(columns) => seen /\ ScannedLine # Marker
              /\ ~seen => columns' = columns /\ all_vars' = all_vars]_vars

(* C7 as amended: the same with a marker line being a line that equals the *)
(* marker once its leading and trailing whitespace is stripped.            *)
C7_MarkerStripped ==
    [][ScanStep =>
          LET seen == \E i \in 1..Len(scanned) : Strip(scanned[i]) = Marker
          IN  /\ Len(columns') > Len(columns) => seen /\ Strip(ScannedLine) # Marker
              /\ ~seen => columns' = columns /\ all_vars' = all_vars]_vars

C7_Witness ==
    /\ pc = "scan"
    /\ Len(runs) = 2
    /\ scanned = <<OutG1, OutPadded, OutG3>>
    /\ Labels(columns) = << <<"G","2">>, <<"G","3">> >>

\* the sum of the coefficients of the pairs naming var
RECURSIVE SumCoeffs(_, _)
SumCoeffs(pairs, var) ==
    IF pairs = <<>> THEN 0
    ELSE (IF Head(pairs).var = var THEN ParseInt(Head(pairs).coeff_str) ELSE 0)
         + SumCoeffs(Tail(pairs), var)

(* C8: a matched equation with no pair adds no column; one with pairs adds *)
(* one column, whose keys are the variables of the pairs and whose value   *)
(* for a variable is the sum of the coefficients of the pairs naming it,   *)
(* a sum of 0 included.                                                    *)
C8_SumOfCoefficients ==
    [][(/\ ScanStep
        /\ \E i \in 1..Len(scanned) : Strip(scanned[i]) = Marker
        /\ Strip(ScannedLine) # Marker) =>
          \A m \in {label_line_re(Strip(ScannedLine))} :
             m.ok =>
               \A pairs \in {FindAll(m.eq)} :
                  IF pairs = <<>> THEN columns' = columns
                  ELSE /\ Len(columns') = Len(columns) + 1
                       /\ \A col \in {columns'[Len(columns')]} :
                            /\ col.label = m.label
                            /\ DOMAIN col.mapping = {pairs[i].var : i \in 1..Len(pairs)}
                            /\ \A v \in DOMAIN col.mapping :
                                  col.mapping[v] = SumCoeffs(pairs, v)]_vars

C8_Witness ==
    /\ columns # <<>>
    /\ LET col == columns[Len(columns)]
       IN  /\ DOMAIN col.mapping = {PR \o <<"A">>, <<"A">> \o AC}
           /\ col.mapping[PR \o <<"A">>] = 1
           /\ col.mapping[<<"A">> \o AC] = 0

----------------------------------------------------------------------------
(* The emitted matrix: column j of the header and of row i.                *)

ColumnLabel(j) == written[1][j + 1]

Cell(i, j) == written[i][j + 1]

NumColumns == Len(written[1]) - 1

\* the columns that follow the rule-derived ones
Synthesized == (Len(collected.columns) + 1)..NumColumns

Collected == Range(collected.all_vars)

(* C2: on a successful run, for every protein base B of a collected        *)
(* variable the rows pr_B and NOT_pr_B are in the matrix, and a row that   *)
(* is not a collected variable holds 0 in every rule-derived column.       *)
C2_ProteinRows ==
    Succeeded =>
        /\ \A B \in ProteinBasesOf(Collected) :
              PR \o B \in RowNames /\ NOTPR \o B \in RowNames
        /\ \A i \in 2..Len(written) :
              written[i][1] \notin Collected =>
                  \A j \in 1..Len(collected.columns) : Cell(i, j) = 0

C2_Witness ==
    /\ Succeeded
    /\ Collected = {NOT \o <<"A">>, <<"A">> \o AC}
    /\ RowNames = {NOT \o <<"A">>, <<"A">> \o AC, PR \o <<"A">>, NOTPR \o <<"A">>}

(* C3: on a successful run, for every protein base B of the rows there is  *)
(* exactly one synthesized column AV_B; it holds 1 at the rows pr_B,       *)
(* NOT_pr_B and NOT_B and 0 at every other row, and the rows pr_B and      *)
(* NOT_pr_B exist.                                                         *)
C3_AvColumns ==
    Succeeded =>
        \A B \in ProteinBasesOf(RowNames) :
            /\ Cardinality({j \in Synthesized : ColumnLabel(j) = AV \o B}) = 1
            /\ PR \o B \in RowNames
            /\ NOTPR \o B \in RowNames
            /\ \A j \in Synthesized :
                  ColumnLabel(j) = AV \o B =>
                      \A i \in 2..Len(written) :
                          Cell(i, j) = IF written[i][1] \in {PR \o B, NOTPR \o B, NOT \o B}
                                       THEN 1 ELSE 0

C3_Witness ==
    /\ Succeeded
    /\ Collected = {NOT \o <<"A">>, <<"A">> \o AC}
    /\ \E j \in Synthesized :
          /\ ColumnLabel(j) = AV \o <<"A">>
          /\ \E i \in 2..Len(written) : written[i][1] = NOT \o <<"A">> /\ Cell(i, j) = 1

(* C4: on a successful run, for every collected variable g_AC there is     *)
(* exactly one synthesized column EX_g; it holds -1 at the row g_AC and 0  *)
(* at every other row.                                                     *)
C4_ExColumns ==
    Succeeded =>
        \A v \in {w \in Collected : EndsWith(w, AC)} :
            \A g \in {SubSeq(v, 1, Len(v) - Len(AC))} :
                /\ Cardinality({j \in Synthesized : ColumnLabel(j) = EX \o g}) = 1
                /\ \A j \in Synthesized :
                      ColumnLabel(j) = EX \o g =>
                          \A i \in 2..Len(written) :
                              Cell(i, j) = IF written[i][1] = v THEN 0 - 1 ELSE 0

C4_Witness ==
    /\ Succeeded
    /\ Collected = {AC, PR \o <<"A","C">>, NOT \o <<"A">>}
    /\ \E j \in Synthesized : ColumnLabel(j) = EX

\* what follows the three characters of an EX_ or AV_ label
BaseOfLabel(label) == DropPrefix(label, 3)

RECURSIVE TokensFrom(_, _)
TokensFrom(eq, i) ==
    IF i > Len(eq) THEN <<>>
    ELSE IF IsSpace(eq[i]) THEN TokensFrom(eq, i + 1)
    ELSE <<SubSeq(eq, i, RunEnd(eq, i, "S"))>>
         \o TokensFrom(eq, RunEnd(eq, i, "S") + 1)

\* a token that is a signed integer
IsIntToken(t) ==
    \A d \in {IF t[1] \in {"+", "-"} THEN Tail(t) ELSE t} :
        d # <<>> /\ \A i \in 1..Len(d) : IsDigit(d[i])

OperatorTokens == {<<"+">>, <<">","=">>}

IsVarToken(t) == ~IsIntToken(t) /\ t \notin OperatorTokens

\* the positions of the coefficients of the terms: an integer followed by a variable
TermsOf(ts) == {i \in 1..(Len(ts) - 1) : IsIntToken(ts[i]) /\ IsVarToken(ts[i + 1])}

RECURSIVE SumTerms(_, _, _)
SumTerms(ts, I, var) ==
    IF I = {} THEN 0
    ELSE LET i == CHOOSE k \in I : TRUE
         IN  (IF ts[i + 1] = var THEN ParseInt(ts[i]) ELSE 0) + SumTerms(ts, I \ {i}, var)

\* every term of the equation is a pair of the column, and every key is a term's variable
TermsCaptured(ts) ==
    IF TermsOf(ts) = {} THEN columns' = columns /\ all_vars' = all_vars
    ELSE /\ Len(columns') = Len(columns) + 1
         /\ \A col \in {columns'[Len(columns')]} :
               /\ DOMAIN col.mapping = {ts[i + 1] : i \in TermsOf(ts)}
               /\ \A v \in DOMAIN col.mapping : col.mapping[v] = SumTerms(ts, TermsOf(ts), v)
         /\ Range(all_vars') = Range(all_vars) \cup {ts[i + 1] : i \in TermsOf(ts)}

\* every integer is followed by a variable and every variable follows an integer
TermsAndOperators(ts) ==
    \A i \in 1..Len(ts) :
        /\ IsIntToken(ts[i]) => i < Len(ts) /\ IsVarToken(ts[i + 1])
        /\ IsVarToken(ts[i]) => i > 1 /\ IsIntToken(ts[i - 1])

\* the step that scans the equation after the marker
EquationStep == ScanStep /\ scanned = <<Marker>> /\ label_line_re(Strip(ScannedLine)).ok

(* C9 as stated: whatever the tokens of the equation, every term (an       *)
(* integer followed by a variable name) is a pair of the column, and no    *)
(* other token, an operator in particular, is a key of the column or a     *)
(* row.                                                                    *)
C9_AnyTokens ==
    [][EquationStep =>
          \A ts \in {TokensFrom(label_line_re(Strip(ScannedLine)).eq, 1)} :
              TermsCaptured(ts)]_vars

(* C9 as amended: the same for the equations in which every integer is     *)
(* directly followed by a variable name and every variable name directly   *)
(* follows an integer.                                                     *)
C9_TermsAndOperators ==
    [][EquationStep =>
          \A ts \in {TokensFrom(label_line_re(Strip(ScannedLine)).eq, 1)} :
              TermsAndOperators(ts) => TermsCaptured(ts)]_vars

C9_Witness ==
    /\ pc = "scan"
    /\ scanned = <<Marker, EqLabel \o <<"+"," ","1"," ","B","1"," ",">","=">>>>
    /\ Len(columns) = 1
    /\ DOMAIN columns[1].mapping = {<<"B","1">>}

(* C10: after the normalization the protein bases computed from the final  *)
(* variables are the ones computed before it, the gene bases are those of  *)
(* the collected variables, and no added row ends in _AC.                  *)
C10_FixedPoint ==
    (pc = "emit" \/ Succeeded) =>
        /\ protein_bases = bases
        /\ bases = ProteinBasesOf(Collected)
        /\ gene_bases = GeneBasesOf(Collected)
        /\ \A v \in Range(all_vars) \ Collected : ~EndsWith(v, AC)

C10_Witness ==
    /\ pc = "emit"
    /\ Collected = {PR \o PR \o <<"A">>, NOT \o <<"A">>, NOTPR \o <<"A","C">>}
    /\ bases = {<<"A">>, PR \o <<"A">>}
    /\ Len(all_vars) = 6

=============================================================================
